---- MODULE Spec2Model ----
(***************************************************************************)
(* The two "from scratch" functions of the notebook                        *)
(* stemming_lemmatization_workshop.ipynb, cell "Basic Implementation from  *)
(* Scratch": stem_word_custom (lines 160-173) and lemmatize_word_custom    *)
(* (lines 175-192), run by one or several callers.                         *)
(*                                                                         *)
(* A Python str is a sequence of characters; a character is a one-letter   *)
(* string for ASCII and the string "U+XXXX" for a non-ASCII code point.    *)
(* A Python value is a record: Str(s) or None.                             *)
(***************************************************************************)
EXTENDS Integers, Sequences, FiniteSets, TLC

\* ------------------------------------------------------------------ bounds

\* Longest word enumerated exhaustively over Alphabet.
MaxLen == 3

\* Number of concurrent callers in SpecConc.
NumCallers == 2

\* ------------------------------------------------------- Python values

Str(s) == [type |-> "str", s |-> s]

None == [type |-> "NoneType"]

\* The value of a local that no statement has bound yet.
Unbound == [type |-> "unbound"]

Max(a, b) == IF a >= b THEN a ELSE b

\* ------------------------------------------------------- str.lower / upper

AsciiUpper ==
  << "A", "B", "C", "D", "E", "F", "G", "H", "I", "J", "K", "L", "M",
     "N", "O", "P", "Q", "R", "S", "T", "U", "V", "W", "X", "Y", "Z" >>

AsciiLower ==
  << "a", "b", "c", "d", "e", "f", "g", "h", "i", "j", "k", "l", "m",
     "n", "o", "p", "q", "r", "s", "t", "u", "v", "w", "x", "y", "z" >>

IsAsciiUpper(c) == \E k \in 1..26 : AsciiUpper[k] = c

IsAsciiLower(c) == \E k \in 1..26 : AsciiLower[k] = c

\* str.lower() of one character.  U+0130 (capital I with dot above) lowers to
\* two characters, "i" and U+0307; U+017F (long s), U+00DF (sharp s) and
\* U+0131 (dotless i) are already lowercase.
LowerChar(c) ==
  IF IsAsciiUpper(c)
    THEN << AsciiLower[CHOOSE k \in 1..26 : AsciiUpper[k] = c] >>
    ELSE IF c = "U+0130" THEN << "i", "U+0307" >>
    ELSE << c >>

\* str.upper() of one character.  U+017F uppercases to "S", U+00DF to "SS",
\* U+0131 to "I".
UpperChar(c) ==
  IF IsAsciiLower(c)
    THEN << AsciiUpper[CHOOSE k \in 1..26 : AsciiLower[k] = c] >>
    ELSE IF c = "U+017F" THEN << "S" >>
    ELSE IF c = "U+00DF" THEN << "S", "S" >>
    ELSE IF c = "U+0131" THEN << "I" >>
    ELSE << c >>

RECURSIVE Lower(_)
\* word.lower() (lines 163, 178) on the characters of a str.
Lower(s) == IF s = << >> THEN << >> ELSE LowerChar(Head(s)) \o Lower(Tail(s))

RECURSIVE Upper(_)
\* w.upper() on the characters of a str.
Upper(s) == IF s = << >> THEN << >> ELSE UpperChar(Head(s)) \o Upper(Tail(s))

\* ------------------------------------------------------- str helpers

\* `suffix in word` in place of word.endswith(suffix): the suffix occurs
\* anywhere in the word.
Contains(w, suffix) ==
  \E k \in 1..Len(w) : k + Len(suffix) - 1 <= Len(w) /\ SubSeq(w, k, k + Len(suffix) - 1) = suffix

\* word.endswith(suffix) (line 170).
EndsWith(w, suffix) ==
  /\ Len(suffix) <= Len(w)
  /\ SubSeq(w, Len(w) - Len(suffix) + 1, Len(w)) = suffix

\* word[n:]: the characters are cut from the front.
SliceOffFront(w, n) == SubSeq(w, n + 1, Len(w))

\* word[:-n-1]: one character too many is cut.
SliceOffOneMore(w, n) == SubSeq(w, 1, Max(Len(w) - n - 1, 0))

\* word[:-n] (line 171): the slice up to n characters before the end; it is
\* empty when n = 0 (word[:0]) or n exceeds the length.
SliceOff(w, n) ==
  IF n = 0 THEN << >> ELSE SubSeq(w, 1, Max(Len(w) - n, 0))

\* ------------------------------------------------------- literals

\* The list with its last two elements in the other order: 'es' before 's'.
SuffixesLiteralEsFirst ==
  << << "i", "n", "g" >>, << "e", "d" >>, << "e", "r" >>,
     << "e", "s", "t" >>, << "l", "y" >>, << "e", "s" >>, << "s" >> >>

\* suffixes = ['ing', 'ed', 'er', 'est', 'ly', 's', 'es'] (line 166).
SuffixesLiteral ==
  << << "i", "n", "g" >>, << "e", "d" >>, << "e", "r" >>,
     << "e", "s", "t" >>, << "l", "y" >>, << "s" >>, << "e", "s" >> >>

\* The dict with 'best' mapped to 'better' instead of 'good'.
WordFormsLiteralBest ==
  ( << "r", "u", "n", "n", "i", "n", "g" >> :> << "r", "u", "n" >> ) @@
  ( << "r", "a", "n" >>                     :> << "r", "u", "n" >> ) @@
  ( << "r", "u", "n", "s" >>                :> << "r", "u", "n" >> ) @@
  ( << "b", "e", "t", "t", "e", "r" >>      :> << "g", "o", "o", "d" >> ) @@
  ( << "b", "e", "s", "t" >>                :> << "b", "e", "t", "t", "e", "r" >> ) @@
  ( << "w", "e", "n", "t" >>                :> << "g", "o" >> ) @@
  ( << "g", "o", "i", "n", "g" >>           :> << "g", "o" >> ) @@
  ( << "g", "o", "e", "s" >>                :> << "g", "o" >> )

\* word_forms = {...} (lines 181-190).
WordFormsLiteral ==
  ( << "r", "u", "n", "n", "i", "n", "g" >> :> << "r", "u", "n" >> ) @@
  ( << "r", "a", "n" >>                     :> << "r", "u", "n" >> ) @@
  ( << "r", "u", "n", "s" >>                :> << "r", "u", "n" >> ) @@
  ( << "b", "e", "t", "t", "e", "r" >>      :> << "g", "o", "o", "d" >> ) @@
  ( << "b", "e", "s", "t" >>                :> << "g", "o", "o", "d" >> ) @@
  ( << "w", "e", "n", "t" >>                :> << "g", "o" >> ) @@
  ( << "g", "o", "i", "n", "g" >>           :> << "g", "o" >> ) @@
  ( << "g", "o", "e", "s" >>                :> << "g", "o" >> )

\* The dict before line 181 binds it.
EmptyDict == [k \in {} |-> << >>]

\* word_forms.get(word, ''): a miss yields the empty str.
DictGetOrEmpty(d, key, default) == IF key \in DOMAIN d THEN d[key] ELSE << >>

\* word_forms.get(word, word) (line 192).
DictGet(d, key, default) == IF key \in DOMAIN d THEN d[key] ELSE default

\* ------------------------------------------------------- inputs

\* Characters of the exhaustively enumerated words: letters of the suffixes
\* "ed", "s", "es" in both cases, and two lowercase non-ASCII letters whose
\* uppercase is ASCII (long s, sharp s).
Alphabet == { "e", "s", "d", "E", "S", "U+017F", "U+00DF" }

\* Every str over Alphabet of length 0..n.
WordsUpTo(n) == UNION { [1..k -> Alphabet] : k \in 0..n }

\* The words of the notebook's demo and of the lookup table, the suffixes
\* themselves, and words on which several suffixes, or all seven, match in
\* turn.
ExampleWords ==
  { << "r", "u", "n", "n", "i", "n", "g" >>,
    << "c", "a", "t", "s" >>,
    << "f", "a", "s", "t", "e", "s", "t" >>,
    << "r", "a", "n" >>,
    << "r", "u", "n", "s" >>,
    << "b", "e", "t", "t", "e", "r" >>,
    << "b", "e", "s", "t" >>,
    << "w", "e", "n", "t" >>,
    << "g", "o", "i", "n", "g" >>,
    << "g", "o", "e", "s" >>,
    << "d", "o", "g" >>,
    << "l", "y", "i", "n", "g" >>,
    << "i", "n", "g", "l", "y" >>,
    << "s", "i", "n", "g", "s" >>,
    << "b", "o", "x", "e", "s" >>,
    << "e", "s", "s" >>,
    << "s", "e", "d" >>,
    << "i", "n", "g" >>,
    << "e", "r" >>,
    << "e", "s", "t" >>,
    << "l", "y" >>,
    << "e", "s", "s", "l", "y", "e", "s", "t", "e", "r", "e", "d", "i", "n", "g" >>,
    << "x", "e", "s", "s", "l", "y", "e", "s", "t", "e", "r", "e", "d", "i", "n", "g" >> }

\* Words with non-ASCII letters: capital I with dot above, dotless i, long s.
ExoticWords ==
  { << "U+0130" >>,
    << "r", "u", "n", "n", "U+0131", "n", "g" >>,
    << "r", "u", "n", "U+017F" >>,
    << "c", "a", "t", "U+017F" >>,
    << "U+0130", "n", "g" >> }

\* w.title() for a one-word str: first character uppercased.
Title(s) == IF s = << >> THEN << >> ELSE UpperChar(Head(s)) \o Tail(s)

CaseVariants(s) == { s, Upper(s), Title(s) }

Words ==
  WordsUpTo(MaxLen) \cup ExoticWords \cup UNION { CaseVariants(s) : s \in ExampleWords }

\* What a caller may pass as `word`: a str, or None.
Inputs == { Str(s) : s \in Words } \cup { None }

\* The arguments of the concurrent callers.
ConcInputs ==
  { Str(<< "E", "S", "S" >>), Str(<< "R", "u", "n", "s" >>),
    Str(<< "L", "y", "i", "n", "g" >>), None }

Functions == { "stem_word_custom", "lemmatize_word_custom" }

Callers == 1..NumCallers

\* ------------------------------------------------------- state

VARIABLES
  fn,          \* fn[c]: the function caller c invokes
  arg,         \* arg[c]: the value caller c passes as `word`
  pc,          \* pc[c]: the line caller c executes next, "done" or "raised"
  word,        \* word[c]: the local `word`
  suffixes,    \* suffixes[c]: the local list `suffixes` of stem_word_custom
  it,          \* it[c]: how many elements the for loop's iterator has yielded
  suffix,      \* suffix[c]: the loop variable `suffix`
  word_forms,  \* word_forms[c]: the local dict of lemmatize_word_custom
  ret,         \* ret[c]: the returned value
  exc,         \* exc[c]: the exception that left the call, "" if none
  removed,     \* removed[c]: history: the suffixes line 171 removed, in order
  tested       \* tested[c]: history: the suffixes line 170 tested, in order

vars ==
  << fn, arg, pc, word, suffixes, it, suffix, word_forms, ret, exc, removed, tested >>

Threads == DOMAIN pc

\* Caller c's call has returned or raised.
Finished(c) == pc[c] \in { "done", "raised" }

\* First line of each function's body.
Entry(f) == IF f = "stem_word_custom" THEN "L163" ELSE "L178"

\* The state in which every caller in T has made its call: the parameter
\* `word` is bound to the argument and nothing else is.
Called(T, f, a) ==
  /\ fn = f
  /\ arg = a
  /\ pc = [c \in T |-> Entry(f[c])]
  /\ word = a
  /\ suffixes = [c \in T |-> << >>]
  /\ it = [c \in T |-> 0]
  /\ suffix = [c \in T |-> << >>]
  /\ word_forms = [c \in T |-> EmptyDict]
  /\ ret = [c \in T |-> Unbound]
  /\ exc = [c \in T |-> ""]
  /\ removed = [c \in T |-> << >>]
  /\ tested = [c \in T |-> << >>]

\* One caller, any input.
Init == \E f \in [{1} -> Functions], a \in [{1} -> Inputs] : Called({1}, f, a)

\* NumCallers concurrent callers.
InitConc ==
  \E f \in [Callers -> Functions], a \in [Callers -> ConcInputs] : Called(Callers, f, a)

\* ------------------------------------------------------- stem_word_custom

\* Line 163 written as `word = (word or '').lower()`: None is taken for the
\* empty str.
StemLowerNoneAsEmpty(c) ==
  /\ pc[c] = "L163"
  /\ word' = [word EXCEPT ![c] = IF word[c].type = "str" THEN Str(Lower(word[c].s)) ELSE Str(<< >>)]
  /\ pc' = [pc EXCEPT ![c] = "L166"]
  /\ UNCHANGED << fn, arg, suffixes, it, suffix, word_forms, ret, exc, removed, tested >>

\* Line 163 without the call of lower(): `word` keeps its case.
StemLowerSkip(c) ==
  /\ pc[c] = "L163"
  /\ IF word[c].type = "str"
       THEN /\ pc' = [pc EXCEPT ![c] = "L166"]
            /\ exc' = exc
       ELSE /\ exc' = [exc EXCEPT ![c] = "AttributeError"]
            /\ pc' = [pc EXCEPT ![c] = "raised"]
  /\ UNCHANGED << fn, arg, word, suffixes, it, suffix, word_forms, ret, removed, tested >>

\* Line 163: word = word.lower().  A value without a lower method (None)
\* raises AttributeError and the call ends there.
StemLower(c) ==
  /\ pc[c] = "L163"
  /\ IF word[c].type = "str"
       THEN /\ word' = [word EXCEPT ![c] = Str(Lower(word[c].s))]
            /\ pc' = [pc EXCEPT ![c] = "L166"]
            /\ exc' = exc
       ELSE /\ exc' = [exc EXCEPT ![c] = "AttributeError"]
            /\ pc' = [pc EXCEPT ![c] = "raised"]
            /\ word' = word
  /\ UNCHANGED << fn, arg, suffixes, it, suffix, word_forms, ret, removed, tested >>

\* Line 166: suffixes = [...], a fresh list bound to the local name.
StemSuffixes(c) ==
  /\ pc[c] = "L166"
  /\ suffixes' = [suffixes EXCEPT ![c] = SuffixesLiteral]
  /\ pc' = [pc EXCEPT ![c] = "L169"]
  /\ UNCHANGED << fn, arg, word, it, suffix, word_forms, ret, exc, removed, tested >>

\* Line 169: for suffix in suffixes.  The list iterator yields the next
\* element and binds it to `suffix`, or is exhausted and the loop ends.
StemFor(c) ==
  /\ pc[c] = "L169"
  /\ IF it[c] < Len(suffixes[c])
       THEN /\ suffix' = [suffix EXCEPT ![c] = suffixes[c][it[c] + 1]]
            /\ it' = [it EXCEPT ![c] = it[c] + 1]
            /\ pc' = [pc EXCEPT ![c] = "L170"]
       ELSE /\ pc' = [pc EXCEPT ![c] = "L173"]
            /\ UNCHANGED << suffix, it >>
  /\ UNCHANGED << fn, arg, word, suffixes, word_forms, ret, exc, removed, tested >>

\* Line 170 without its condition: line 171 runs for every suffix.
StemIfNoGuard(c) ==
  /\ pc[c] = "L170"
  /\ tested' = [tested EXCEPT ![c] = Append(tested[c], suffix[c])]
  /\ pc' = [pc EXCEPT ![c] = "L171"]
  /\ UNCHANGED << fn, arg, word, suffixes, it, suffix, word_forms, ret, exc, removed >>

\* Line 170 written as `if word[-1] == suffix[-1] and word.endswith(suffix)`:
\* indexing the empty str raises IndexError.
StemIfIndexed(c) ==
  /\ pc[c] = "L170"
  /\ tested' = [tested EXCEPT ![c] = Append(tested[c], suffix[c])]
  /\ IF word[c].s = << >>
       THEN /\ exc' = [exc EXCEPT ![c] = "IndexError"]
            /\ pc' = [pc EXCEPT ![c] = "raised"]
       ELSE /\ pc' = [pc EXCEPT ![c] = IF EndsWith(word[c].s, suffix[c]) THEN "L171" ELSE "L169"]
            /\ exc' = exc
  /\ UNCHANGED << fn, arg, word, suffixes, it, suffix, word_forms, ret, removed >>

\* Line 170: if word.endswith(suffix).
StemIf(c) ==
  /\ pc[c] = "L170"
  /\ tested' = [tested EXCEPT ![c] = Append(tested[c], suffix[c])]
  /\ pc' = [pc EXCEPT ![c] = IF EndsWith(word[c].s, suffix[c]) THEN "L171" ELSE "L169"]
  /\ UNCHANGED << fn, arg, word, suffixes, it, suffix, word_forms, ret, exc, removed >>

\* Line 171 followed by a restart of the scan: after a removal the list is
\* gone through from its first suffix again.
StemStripRestart(c) ==
  /\ pc[c] = "L171"
  /\ word' = [word EXCEPT ![c] = Str(SliceOff(word[c].s, Len(suffix[c])))]
  /\ removed' = [removed EXCEPT ![c] = Append(removed[c], suffix[c])]
  /\ it' = [it EXCEPT ![c] = 0]
  /\ pc' = [pc EXCEPT ![c] = "L169"]
  /\ UNCHANGED << fn, arg, suffixes, suffix, word_forms, ret, exc, tested >>

\* Line 171 with `word` declared global: the assignment rebinds the one
\* `word` every running call reads.
StemStripGlobal(c) ==
  /\ pc[c] = "L171"
  /\ word' = [d \in Threads |->
               IF d = c \/ ~ Finished(d)
                 THEN Str(SliceOff(word[c].s, Len(suffix[c])))
                 ELSE word[d]]
  /\ removed' = [removed EXCEPT ![c] = Append(removed[c], suffix[c])]
  /\ pc' = [pc EXCEPT ![c] = "L169"]
  /\ UNCHANGED << fn, arg, suffixes, it, suffix, word_forms, ret, exc, tested >>

\* Line 171 followed by a `break`: the loop ends after the first removal.
StemStripBreak(c) ==
  /\ pc[c] = "L171"
  /\ word' = [word EXCEPT ![c] = Str(SliceOff(word[c].s, Len(suffix[c])))]
  /\ removed' = [removed EXCEPT ![c] = Append(removed[c], suffix[c])]
  /\ pc' = [pc EXCEPT ![c] = "L173"]
  /\ UNCHANGED << fn, arg, suffixes, it, suffix, word_forms, ret, exc, tested >>

\* Line 171: word = word[:-len(suffix)], then back to the loop head.
StemStrip(c) ==
  /\ pc[c] = "L171"
  /\ word' = [word EXCEPT ![c] = Str(SliceOff(word[c].s, Len(suffix[c])))]
  /\ removed' = [removed EXCEPT ![c] = Append(removed[c], suffix[c])]
  /\ pc' = [pc EXCEPT ![c] = "L169"]
  /\ UNCHANGED << fn, arg, suffixes, it, suffix, word_forms, ret, exc, tested >>

\* Line 173: return word.
StemReturn(c) ==
  /\ pc[c] = "L173"
  /\ ret' = [ret EXCEPT ![c] = word[c]]
  /\ pc' = [pc EXCEPT ![c] = "done"]
  /\ UNCHANGED << fn, arg, word, suffixes, it, suffix, word_forms, exc, removed, tested >>

\* ------------------------------------------------------- lemmatize_word_custom

\* Line 178 without the call of lower(): `word` keeps its case.
LemmatizeLowerSkip(c) ==
  /\ pc[c] = "L178"
  /\ IF word[c].type = "str"
       THEN /\ pc' = [pc EXCEPT ![c] = "L181"]
            /\ exc' = exc
       ELSE /\ exc' = [exc EXCEPT ![c] = "AttributeError"]
            /\ pc' = [pc EXCEPT ![c] = "raised"]
  /\ UNCHANGED << fn, arg, word, suffixes, it, suffix, word_forms, ret, removed, tested >>

\* Line 178: word = word.lower(), as line 163.
LemmatizeLower(c) ==
  /\ pc[c] = "L178"
  /\ IF word[c].type = "str"
       THEN /\ word' = [word EXCEPT ![c] = Str(Lower(word[c].s))]
            /\ pc' = [pc EXCEPT ![c] = "L181"]
            /\ exc' = exc
       ELSE /\ exc' = [exc EXCEPT ![c] = "AttributeError"]
            /\ pc' = [pc EXCEPT ![c] = "raised"]
            /\ word' = word
  /\ UNCHANGED << fn, arg, suffixes, it, suffix, word_forms, ret, removed, tested >>

\* Lines 181-190: word_forms = {...}, a fresh dict bound to the local name.
LemmatizeWordForms(c) ==
  /\ pc[c] = "L181"
  /\ word_forms' = [word_forms EXCEPT ![c] = WordFormsLiteral]
  /\ pc' = [pc EXCEPT ![c] = "L192"]
  /\ UNCHANGED << fn, arg, word, suffixes, it, suffix, ret, exc, removed, tested >>

\* Line 192: return word_forms.get(word, word).
LemmatizeReturn(c) ==
  /\ pc[c] = "L192"
  /\ ret' = [ret EXCEPT ![c] = Str(DictGet(word_forms[c], word[c].s, word[c].s))]
  /\ pc' = [pc EXCEPT ![c] = "done"]
  /\ UNCHANGED << fn, arg, word, suffixes, it, suffix, word_forms, exc, removed, tested >>

\* ------------------------------------------------------- specifications

Next ==
  \/ \E c \in Threads : StemLower(c)
  \/ \E c \in Threads : StemSuffixes(c)
  \/ \E c \in Threads : StemFor(c)
  \/ \E c \in Threads : StemIf(c)
  \/ \E c \in Threads : StemStrip(c)
  \/ \E c \in Threads : StemReturn(c)
  \/ \E c \in Threads : LemmatizeLower(c)
  \/ \E c \in Threads : LemmatizeWordForms(c)
  \/ \E c \in Threads : LemmatizeReturn(c)

\* A single call.
Spec == Init /\ [][Next]_vars

\* Concurrent calls, interleaved statement by statement.
SpecConc == InitConc /\ [][Next]_vars

\* A single call whose interpreter keeps running it: a statement that can
\* execute eventually does.
FairSpec == Spec /\ WF_vars(Next)

\* ------------------------------------------------------- the functions as operators

RECURSIVE StemLoopFrom(_, _, _)
\* Lines 169-171 from the k-th suffix of list l on, on the characters w.
StemLoopFrom(w, l, k) ==
  IF k > Len(l) THEN w
  ELSE StemLoopFrom(IF EndsWith(w, l[k]) THEN SliceOff(w, Len(l[k])) ELSE w, l, k + 1)

Return(v) == [kind |-> "return", value |-> v]

Raise(e) == [kind |-> "raise", exc |-> e]

\* stem_word_custom(word) (lines 160-173) run on its own: what it returns
\* or raises.
stem_word_custom(v) ==
  IF v.type = "str"
    THEN Return(Str(StemLoopFrom(Lower(v.s), SuffixesLiteral, 1)))
    ELSE Raise("AttributeError")

\* lemmatize_word_custom(word) (lines 175-192) run on its own.
lemmatize_word_custom(v) ==
  IF v.type = "str"
    THEN Return(Str(DictGet(WordFormsLiteral, Lower(v.s), Lower(v.s))))
    ELSE Raise("AttributeError")

\* How caller c's call ended.
Outcome(c) == IF pc[c] = "done" THEN Return(ret[c]) ELSE Raise(exc[c])

\* ------------------------------------------------------- what the claims speak of

\* The Suffix List as the specification states it (section 4.1, step 2).
SuffixList ==
  << << "i", "n", "g" >>, << "e", "d" >>, << "e", "r" >>,
     << "e", "s", "t" >>, << "l", "y" >>, << "s" >>, << "e", "s" >> >>

\* w with the suffix suf removed if w is some p followed by suf, else w.
RemoveSuffix(w, suf) ==
  LET P == { k \in 0..Len(w) : SubSeq(w, 1, k) \o suf = w }
  IN  IF P = {} THEN w ELSE SubSeq(w, 1, CHOOSE k \in P : TRUE)

\* The cascading reference: every suffix of the Suffix List tried once, in
\* order, each on what the earlier ones left.
CascadeReference(w) ==
  RemoveSuffix(RemoveSuffix(RemoveSuffix(RemoveSuffix(RemoveSuffix(RemoveSuffix(
    RemoveSuffix(Lower(w), SuffixList[1]), SuffixList[2]), SuffixList[3]),
    SuffixList[4]), SuffixList[5]), SuffixList[6]), SuffixList[7])

\* The positions of the Suffix List whose suffix the str w ends with.
Matching(w) == { k \in 1..Len(SuffixList) : RemoveSuffix(w, SuffixList[k]) # w }

\* The first-match reference: only the first suffix, in list order, that w
\* ends with is removed.
FirstMatchReference(w) ==
  LET lw == Lower(w)
  IN  IF Matching(lw) = {} THEN lw
      ELSE RemoveSuffix(lw, SuffixList[CHOOSE k \in Matching(lw) : \A j \in Matching(lw) : k <= j])

RECURSIVE Concat(_)
\* The strs of a sequence one after the other.
Concat(ss) == IF ss = << >> THEN << >> ELSE Head(ss) \o Concat(Tail(ss))

Reverse(ss) == [k \in 1..Len(ss) |-> ss[Len(ss) + 1 - k]]

\* Caller c called stem_word_custom with a str and the call has returned.
StemDone(c) == fn[c] = "stem_word_custom" /\ arg[c].type = "str" /\ pc[c] = "done"

\* Caller c called lemmatize_word_custom with a str and the call has returned.
LemmatizeDone(c) == fn[c] = "lemmatize_word_custom" /\ arg[c].type = "str" /\ pc[c] = "done"

\* ------------------------------------------------------- claims

\* C1: stem_word_custom(w) is the cascading reference: w lowercased, then
\* every suffix of the list in order removed from the current word when that
\* word ends with it, the checks going on after a match.
C1_Cascade ==
  \A c \in Threads : StemDone(c) => ret[c] = Str(CascadeReference(arg[c].s))

\* C1 witness: a call that removed 'ing' and then, from what was left, 'ly'.
C1_Witness ==
  \E c \in Threads :
    StemDone(c) /\ removed[c] = << SuffixList[1], SuffixList[5] >> /\ ret[c] = Str(<< >>)

IrregularFormTable(w) ==
  CASE w = << "r", "u", "n", "n", "i", "n", "g" >> -> << "r", "u", "n" >>
    [] w = << "r", "a", "n" >>                     -> << "r", "u", "n" >>
    [] w = << "r", "u", "n", "s" >>                -> << "r", "u", "n" >>
    [] w = << "b", "e", "t", "t", "e", "r" >>      -> << "g", "o", "o", "d" >>
    [] w = << "b", "e", "s", "t" >>                -> << "g", "o", "o", "d" >>
    [] w = << "w", "e", "n", "t" >>                -> << "g", "o" >>
    [] w = << "g", "o", "i", "n", "g" >>           -> << "g", "o" >>
    [] w = << "g", "o", "e", "s" >>                -> << "g", "o" >>
    [] OTHER                                       -> w

\* C3: lemmatize_word_custom(w) is the reference lookup: the lemma the table
\* gives for the lowercased word, or the lowercased word when it is no key.
C3_Lookup ==
  \A c \in Threads : LemmatizeDone(c) => ret[c] = Str(IrregularFormTable(Lower(arg[c].s)))

\* C3 witness: a lookup that hit the table from a capitalised key.
C3_Witness ==
  \E c \in Threads :
    /\ LemmatizeDone(c)
    /\ arg[c] = Str(<< "B", "e", "s", "t" >>)
    /\ ret[c] = Str(<< "g", "o", "o", "d" >>)

\* C4: stem_word_custom(w) = stem_word_custom(w.lower()) for every word, and
\* lowercasing a lowercased word changes nothing.
C4_CaseInsensitive ==
  \A c \in Threads : StemDone(c) =>
    /\ Return(ret[c]) = stem_word_custom(Str(Lower(arg[c].s)))
    /\ Lower(Lower(arg[c].s)) = Lower(arg[c].s)

\* C4 witness: a call with an uppercase letter in its word that removed a suffix.
C4_Witness ==
  \E c \in Threads :
    StemDone(c) /\ arg[c].s # Lower(arg[c].s) /\ removed[c] # << >> /\ ret[c].s # << >>

\* Every character of the str w is an ASCII letter.
IsAscii(w) == \A k \in 1..Len(w) : IsAsciiUpper(w[k]) \/ IsAsciiLower(w[k])

\* The pairs << w.upper(), w >> for the words w of the input set.
UpperOf == { << Upper(w), w >> : w \in Words }

\* The pairs of UpperOf whose word w has ASCII characters only.
AsciiUpperOf == { p \in UpperOf : IsAscii(p[2]) }

\* C5 as stated: lemmatize_word_custom(w.upper()) = lemmatize_word_custom(w.lower())
\* for every word w of the input character set.
C5_UpperLowerAgree ==
  \A c \in Threads : LemmatizeDone(c) =>
    \A p \in UpperOf : arg[c].s = p[1] =>
      Return(ret[c]) = lemmatize_word_custom(Str(Lower(p[2])))

\* C5 amended: lemmatize_word_custom(w.upper()) = lemmatize_word_custom(w.lower())
\* for every word w of ASCII characters only, e.g. 'RUNNING' yields 'run'.
C5_UpperLowerAgreeAscii ==
  \A c \in Threads : LemmatizeDone(c) =>
    \A p \in AsciiUpperOf : arg[c].s = p[1] =>
      Return(ret[c]) = lemmatize_word_custom(Str(Lower(p[2])))

\* C5 witness: the call on 'RUNNING' returned 'run'.
C5_Witness ==
  \E c \in Threads :
    /\ LemmatizeDone(c)
    /\ arg[c] = Str(<< "R", "U", "N", "N", "I", "N", "G" >>)
    /\ ret[c] = Str(<< "r", "u", "n" >>)

\* C6: when the lowercased word ends with none of the seven suffixes,
\* stem_word_custom returns it lowercased and otherwise unchanged.
C6_Unmatched ==
  \A c \in Threads :
    StemDone(c) /\ Matching(Lower(arg[c].s)) = {} => ret[c] = Str(Lower(arg[c].s))

\* C6 witness: a word with uppercase letters and no matching suffix, which
\* contains a suffix ('s') elsewhere than at its end, was returned.
C6_Witness ==
  \E c \in Threads :
    /\ StemDone(c)
    /\ Matching(Lower(arg[c].s)) = {}
    /\ arg[c].s # Lower(arg[c].s)
    /\ \E k \in 1..Len(arg[c].s) : Lower(arg[c].s)[k] = "s"

\* C7: stem_word_custom('running') = 'runn' (not 'run'),
\* stem_word_custom('cats') = 'cat', stem_word_custom('fastest') = 'fast'.
C7_Examples ==
  \A c \in Threads : StemDone(c) =>
    /\ arg[c].s = << "r", "u", "n", "n", "i", "n", "g" >> =>
         ret[c].s = << "r", "u", "n", "n" >> /\ ret[c].s # << "r", "u", "n" >>
    /\ arg[c].s = << "c", "a", "t", "s" >> => ret[c].s = << "c", "a", "t" >>
    /\ arg[c].s = << "f", "a", "s", "t", "e", "s", "t" >> => ret[c].s = << "f", "a", "s", "t" >>

\* C7 witness: the call on 'running' has returned.
C7_Witness ==
  \E c \in Threads : StemDone(c) /\ arg[c].s = << "r", "u", "n", "n", "i", "n", "g" >>

\* The keys of the Irregular Form Table.
IsTableKey(w) == IrregularFormTable(w) # w

\* C8: for a word whose lowercased form is no key of the table,
\* lemmatize_word_custom returns the lowercased word, and a miss never raises.
C8_Fallback ==
  \A c \in Threads :
    /\ fn[c] = "lemmatize_word_custom"
    /\ arg[c].type = "str"
    /\ ~ IsTableKey(Lower(arg[c].s))
    => /\ pc[c] # "raised"
       /\ pc[c] = "done" => ret[c] = Str(Lower(arg[c].s))

\* C8 witness: the call on 'Dog' returned 'dog'.
C8_Witness ==
  \E c \in Threads :
    /\ LemmatizeDone(c)
    /\ arg[c] = Str(<< "D", "o", "g" >>)
    /\ ret[c] = Str(<< "d", "o", "g" >>)

\* The strs the model speaks of: finite sequences of characters.
IsStr(v) == v.type = "str" /\ DOMAIN v.s = 1..Len(v.s)

\* C9: on every str input, the empty str included, both functions terminate
\* and return a str; no str input ends in an exception.
C9_Total ==
  /\ [](\A c \in Threads : arg[c].type = "str" =>
          /\ pc[c] # "raised"
          /\ exc[c] = ""
          /\ pc[c] = "done" => IsStr(ret[c]))
  /\ <>(\A c \in Threads : arg[c].type = "str" => pc[c] = "done")

\* C9 witness: stem_word_custom called on the empty str has returned the
\* empty str.
C9_Witness ==
  \E c \in Threads :
    /\ fn[c] = "stem_word_custom"
    /\ pc[c] = "done"
    /\ arg[c] = Str(<< >>)
    /\ ret[c] = Str(<< >>)

\* What the call f(a) returns or raises when run alone.
RunAlone(f, a) ==
  IF f = "stem_word_custom" THEN stem_word_custom(a) ELSE lemmatize_word_custom(a)

\* C10: concurrent calls, in any interleaving, each end as the same call ends
\* when run alone, and no step changes a Suffix List or an Irregular Form
\* Table once it is built: each has the literal's contents throughout.
C10_Concurrent ==
  /\ [](\A c \in Threads : Finished(c) => Outcome(c) = RunAlone(fn[c], arg[c]))
  /\ [](\A c \in Threads :
          /\ suffixes[c] \in { << >>, SuffixList }
          /\ \A w \in DOMAIN word_forms[c] : word_forms[c][w] = IrregularFormTable(w))
  /\ [][\A c \in Threads :
          /\ suffixes[c] # << >> => suffixes'[c] = suffixes[c]
          /\ word_forms[c] # EmptyDict => word_forms'[c] = word_forms[c]]_vars

\* C10 witness: a stem_word_custom call that removed a suffix has returned
\* while another call, started with it, is still inside its loop.
C10_Witness ==
  \E c, d \in Threads :
    /\ c # d
    /\ pc[c] = "done" /\ fn[c] = "stem_word_custom" /\ removed[c] # << >>
    /\ pc[d] \in { "L170", "L171" }

\* Caller c runs stem_word_custom on a str.
StemCall(c) == fn[c] = "stem_word_custom" /\ arg[c].type = "str"

\* The inputs the specification names as consumed whole: six of the
\* suffixes, and the empty str.
ConsumedWhole ==
  { << >>, SuffixList[1], SuffixList[2], SuffixList[3], SuffixList[4], SuffixList[5],
    SuffixList[6] }

\* C11: stem_word_custom returns the empty str, as an ordinary result and
\* without error, whenever the removed suffixes make up the whole lowercased
\* word ('ing', 'ed', 'er', 'est', 'ly', 's' and the empty input among them);
\* line 171 is reached only with a word that ends with the suffix, so it
\* never removes more characters than the word has.
C11_EmptyResult ==
  \A c \in Threads : StemCall(c) =>
    /\ pc[c] # "raised" /\ exc[c] = ""
    /\ pc[c] = "L171" =>
         /\ Len(suffix[c]) <= Len(word[c].s)
         /\ RemoveSuffix(word[c].s, suffix[c]) \o suffix[c] = word[c].s
    /\ pc[c] = "done" =>
         /\ Len(ret[c].s) + Len(Concat(removed[c])) = Len(Lower(arg[c].s))
         /\ Concat(Reverse(removed[c])) = Lower(arg[c].s) => ret[c] = Str(<< >>)
         /\ Lower(arg[c].s) \in ConsumedWhole => ret[c] = Str(<< >>)

\* C11 witness: the call on 'EST', a word identical to a suffix, has removed
\* it and returned the empty str.
C11_Witness ==
  \E c \in Threads :
    /\ StemDone(c)
    /\ arg[c] = Str(<< "E", "S", "T" >>)
    /\ removed[c] = << SuffixList[4] >>
    /\ ret[c] = Str(<< >>)

\* The exceptions an explicit argument check raises.
PreconditionViolations == { "TypeError", "ValueError" }

\* C12 as stated: a None input is rejected explicitly, as a precondition
\* violation raised before any transformation step and not as a fault of the
\* transform itself; no result is produced.
C12_ExplicitRejection ==
  \A c \in Threads : arg[c] = None /\ Finished(c) =>
    /\ pc[c] = "raised"
    /\ exc[c] \in PreconditionViolations
    /\ ret[c] = Unbound

\* C12 amended: a None input produces no result in either function: the call
\* ends with the AttributeError that word.lower(), the first statement of the
\* transform, raises; nothing is checked before it and no later statement
\* runs.
C12_NoneFaults ==
  \A c \in Threads : arg[c] = None =>
    /\ pc[c] \in { Entry(fn[c]), "raised" }
    /\ pc[c] = "raised" <=> exc[c] = "AttributeError"
    /\ exc[c] \in { "", "AttributeError" }
    /\ ret[c] = Unbound
    /\ word[c] = None
    /\ suffixes[c] = << >> /\ word_forms[c] = EmptyDict
    /\ tested[c] = << >> /\ removed[c] = << >>

\* C12 witness: stem_word_custom called with None has raised.
C12_Witness ==
  \E c \in Threads :
    fn[c] = "stem_word_custom" /\ arg[c] = None /\ pc[c] = "raised" /\ exc[c] = "AttributeError"

\* The str p is a prefix of the str w.
IsPrefix(p, w) == Len(p) <= Len(w) /\ SubSeq(w, 1, Len(p)) = p

\* C13: once the word is lowercased, and so after every iteration of the
\* suffix loop, the current word is a prefix of the lowercased input, and the
\* lowercased input is the current word followed by the removed suffixes in
\* reverse order of removal; the result is a prefix of w.lower(), never
\* longer, and at most 15 characters shorter (3+2+2+3+2+1+2).
C13_LoopInvariant ==
  /\ Len(Concat(SuffixList)) = 15
  /\ \A c \in Threads : StemCall(c) /\ pc[c] # "L163" =>
       LET lw == Lower(arg[c].s)
       IN  /\ IsPrefix(word[c].s, lw)
           /\ word[c].s \o Concat(Reverse(removed[c])) = lw
           /\ pc[c] = "done" =>
                /\ IsPrefix(ret[c].s, lw)
                /\ Len(ret[c].s) <= Len(lw)
                /\ Len(lw) - Len(ret[c].s) <= 15

\* C13 witness: a call in which all seven suffixes matched in turn returned
\* a word 15 characters shorter than its input.
C13_Witness ==
  \E c \in Threads :
    /\ StemDone(c)
    /\ removed[c] = SuffixList
    /\ Len(Lower(arg[c].s)) - Len(ret[c].s) = 15
    /\ ret[c].s # << >>

\* The position of the suffix suf in the Suffix List, 0 if it is not in it.
Position(suf) ==
  IF \E k \in 1..Len(SuffixList) : SuffixList[k] = suf
    THEN CHOOSE k \in 1..Len(SuffixList) : SuffixList[k] = suf
    ELSE 0

\* C14: in one call each of the seven suffixes is tested exactly once, in
\* list order, and removed at most once; no suffix is tested again after a
\* later one was removed, so the result may still end with a listed suffix
\* ('ingly' yields 'ing', 'sings' yields 'sing').
C14_SinglePass ==
  \A c \in Threads : StemCall(c) =>
    /\ tested[c] = SubSeq(SuffixList, 1, Len(tested[c]))
    /\ Len(tested[c]) = IF pc[c] = "L170" THEN it[c] - 1 ELSE it[c]
    /\ pc[c] \in { "L173", "done" } => tested[c] = SuffixList
    /\ \A n \in 1..Len(removed[c]) :
         /\ Position(removed[c][n]) \in 1..Len(tested[c])
         /\ n > 1 => Position(removed[c][n - 1]) < Position(removed[c][n])
    /\ pc[c] = "done" =>
         /\ arg[c].s = << "i", "n", "g", "l", "y" >> => ret[c].s = << "i", "n", "g" >>
         /\ arg[c].s = << "s", "i", "n", "g", "s" >> => ret[c].s = << "s", "i", "n", "g" >>

\* C14 witness: the call on 'ingly' tested the seven suffixes, removed 'ly'
\* alone and returned 'ing', which still ends with a listed suffix.
C14_Witness ==
  \E c \in Threads :
    /\ StemDone(c)
    /\ arg[c].s = << "i", "n", "g", "l", "y" >>
    /\ tested[c] = SuffixList
    /\ removed[c] = << SuffixList[5] >>
    /\ Matching(ret[c].s) # {}

\* The str w ends with the str suf.
EndsIn(w, suf) == RemoveSuffix(w, suf) \o suf = w

\* The suffix suf is among those caller c has removed.
HasRemoved(c, suf) == \E n \in 1..Len(removed[c]) : removed[c][n] = suf

\* The word caller c's call had when the 's' step was reached, read back
\* from the result: 's' was removed before 'es'.
WordAtSStep(c) ==
  ret[c].s \o (IF HasRemoved(c, SuffixList[7]) THEN SuffixList[7] ELSE << >>)
           \o (IF HasRemoved(c, SuffixList[6]) THEN SuffixList[6] ELSE << >>)

\* C15: 's' being tested before 'es', the 'es' step removes something if and
\* only if the 's' step removed an 's' from a word that then ended in 'ess';
\* a word that ends in 'es' but not in 'ess' when the 's' step is reached
\* loses only its final 's' ('boxes' yields 'boxe', 'es' yields 'e', 'ess'
\* yields the empty str).
C15_EsShadowed ==
  \A c \in Threads : StemCall(c) =>
    /\ pc[c] = "L171" /\ suffix[c] = SuffixList[7] =>
         /\ removed[c] # << >>
         /\ removed[c][Len(removed[c])] = SuffixList[6]
         /\ EndsIn(word[c].s \o SuffixList[6], << "e", "s", "s" >>)
    /\ pc[c] = "done" =>
         LET ws == WordAtSStep(c)
         IN  /\ HasRemoved(c, SuffixList[7]) <=>
                  HasRemoved(c, SuffixList[6]) /\ EndsIn(ws, << "e", "s", "s" >>)
             /\ EndsIn(ws, << "e", "s" >>) /\ ~ EndsIn(ws, << "e", "s", "s" >>) =>
                  /\ ret[c].s \o << "s" >> = ws
                  /\ EndsIn(ret[c].s, << "e" >>)
             /\ arg[c].s = << "b", "o", "x", "e", "s" >> => ret[c].s = << "b", "o", "x", "e" >>
             /\ arg[c].s = << "e", "s" >> => ret[c].s = << "e" >>
             /\ arg[c].s = << "e", "s", "s" >> => ret[c].s = << >>

\* C15 witness: the call on 'boxes' removed the 's' alone and returned 'boxe'.
C15_Witness ==
  \E c \in Threads :
    /\ StemDone(c)
    /\ arg[c].s = << "b", "o", "x", "e", "s" >>
    /\ removed[c] = << SuffixList[6] >>
    /\ ret[c].s = << "b", "o", "x", "e" >>

\* C16: lemmatize_word_custom(lemmatize_word_custom(w)) =
\* lemmatize_word_custom(w) for every word w: every key of the table is
\* lowercase, no value of the table is a key, and what is returned is a
\* lowercase word that is no key.
C16_Idempotent ==
  \A c \in Threads :
    /\ \A k \in DOMAIN word_forms[c] :
         /\ Lower(k) = k
         /\ word_forms[c][k] \notin DOMAIN word_forms[c]
    /\ LemmatizeDone(c) =>
         /\ lemmatize_word_custom(ret[c]) = Return(ret[c])
         /\ Lower(ret[c].s) = ret[c].s
         /\ ~ IsTableKey(ret[c].s)

\* C16 witness: the call on 'Going' hit the table and returned 'go', on which
\* a second call falls back to 'go'.
C16_Witness ==
  \E c \in Threads :
    /\ LemmatizeDone(c)
    /\ arg[c] = Str(<< "G", "o", "i", "n", "g" >>)
    /\ ret[c] = Str(<< "g", "o" >>)
    /\ lemmatize_word_custom(ret[c]) = Return(Str(<< "g", "o" >>))

====
